---------------------------- MODULE Spec2Model ----------------------------
(* Model of the action builder of better-next-actions                      *)
(* (src/src/action-client.ts): the ActionBuilder heap (input / use /        *)
(* action), the composed middleware closures, and the invocation of a built *)
(* action with its catch block.                                             *)
EXTENDS Integers, Sequences, FiniteSets, TLC

VARIABLES builders, closures, pipelines, inv, derived, hook

vars == <<builders, closures, pipelines, inv, derived, hook>>

(* ------------------------------------------------------------------ *)
(* Bounds                                                               *)
(* ------------------------------------------------------------------ *)
(* The number of objects built from actionClient: builders made by input *)
(* and use, and actions made by action.                                  *)
MaxObjects == 4

(* ------------------------------------------------------------------ *)
(* JavaScript values                                                    *)
(* ------------------------------------------------------------------ *)
Undefined == "<undefined>"

JsNull == [t |-> "null"]
JsUndefined == [t |-> "undefined"]
Str(s) == [t |-> "string", s |-> s]
Bool(b) == [t |-> "boolean", b |-> b]
Obj(f) == [t |-> "object", f |-> f]

EmptyFields == [k \in {} |-> JsNull]

(* Strings whose characters matter are sequences of one-character strings. *)
NEXT_ == <<"N", "E", "X", "T", "_">>

StartsWith(s, prefix) ==
    /\ Len(s) >= Len(prefix)
    /\ SubSeq(s, 1, Len(prefix)) = prefix

(* ------------------------------------------------------------------ *)
(* Thrown values                                                        *)
(* ------------------------------------------------------------------ *)
(* A thrown value: its typeof, whether it has a digest property and what *)
(* that property holds, and whether it is an instance of ActionError.    *)
Thrown(typeOf, isNull, hasDigest, digestType, digest, isActionError, code, message) ==
    [typeOf |-> typeOf, isNull |-> isNull, hasDigest |-> hasDigest,
     digestType |-> digestType, digest |-> digest,
     isActionError |-> isActionError, code |-> code, message |-> message]

(* new Error(message) *)
PlainError(message) ==
    Thrown("object", FALSE, FALSE, "undefined", <<>>, FALSE, Undefined, message)

(* The two input forms of the ActionError constructor. *)
FromString(s) == [isString |-> TRUE, code |-> Undefined, message |-> s]
FromProps(code, message) == [isString |-> FALSE, code |-> code, message |-> message]

(* Mutant: a string input is taken for the code as well as the message. *)
ActionError_stringAsCode(input) ==
    LET props == IF input.isString
                 THEN [message |-> input.message, code |-> input.message]
                 ELSE [message |-> input.message, code |-> input.code]
    IN  Thrown("object", FALSE, FALSE, "undefined", <<>>, TRUE, props.code, props.message)

ActionError(input) ==
    LET props == IF input.isString
                 THEN [message |-> input.message, code |-> Undefined]
                 ELSE [message |-> input.message, code |-> input.code]
    IN  Thrown("object", FALSE, FALSE, "undefined", <<>>, TRUE, props.code, props.message)

(* e with e.digest = d assigned (d a string) *)
WithDigest(e, d) == [e EXCEPT !.hasDigest = TRUE, !.digestType = "string", !.digest = d]

(* Mutant: any object with a string digest is an internal Next.js error. *)
isNextJsInternalError_anyDigest(error) ==
    IF error.typeOf # "object" \/ error.isNull \/ ~error.hasDigest
    THEN FALSE
    ELSE error.digestType = "string"

(* Mutant: no thrown value is recognised as an internal Next.js error. *)
isNextJsInternalError_never(error) == FALSE

isNextJsInternalError(error) ==
    IF error.typeOf # "object" \/ error.isNull \/ ~error.hasDigest
    THEN FALSE
    ELSE error.digestType = "string" /\ StartsWith(error.digest, NEXT_)

(* The values middleware steps and handlers throw in this model. *)
NEXT_REDIRECT == NEXT_ \o <<"R">>

(* The inputs ActionErrors are constructed from in this model. *)
ErrorInputs ==
    { FromProps("UNAUTHORIZED", "Not logged in."),
      FromProps("VALIDATION_ERROR", "Invalid input provided."),
      FromString("Item ID is required") }

Faults ==
    { ActionError(given) : given \in ErrorInputs } \cup
    { WithDigest(PlainError("NEXT_REDIRECT"), NEXT_REDIRECT),
      WithDigest(ActionError(FromProps("FORBIDDEN", "Not an admin.")), NEXT_REDIRECT),
      PlainError("boom"),
      Thrown("object", TRUE, FALSE, "undefined", <<>>, FALSE, Undefined, Undefined) }

(* ------------------------------------------------------------------ *)
(* Contexts                                                             *)
(* ------------------------------------------------------------------ *)
EmptyCtx == [k \in {} |-> 0]

(* Mutant: { ...newCtx, ...baseCtx }, the earlier value wins. *)
Spread_leftBiased(baseCtx, newCtx) ==
    [k \in (DOMAIN baseCtx) \cup (DOMAIN newCtx) |->
        IF k \in DOMAIN baseCtx THEN baseCtx[k] ELSE newCtx[k]]

(* { ...baseCtx, ...newCtx } *)
Spread(baseCtx, newCtx) ==
    [k \in (DOMAIN baseCtx) \cup (DOMAIN newCtx) |->
        IF k \in DOMAIN newCtx THEN newCtx[k] ELSE baseCtx[k]]

(* The increments middleware steps return in this model. *)
Increments == { ("a" :> 1), ("a" :> 2) @@ ("b" :> 3) }

(* ------------------------------------------------------------------ *)
(* Schemas and payloads                                                 *)
(* ------------------------------------------------------------------ *)
(* z.object({ title: z.string().min(3) }) *)
createPostSchema ==
    [defined |-> TRUE, shape |-> ("title" :> [type |-> "string", min |-> 3])]

(* z.object({ maintenanceMode: z.boolean() }) *)
updateSystemSettingsSchema ==
    [defined |-> TRUE, shape |-> ("maintenanceMode" :> [type |-> "boolean", min |-> 0])]

(* schema: undefined *)
SchemaUndefined == [defined |-> FALSE, shape |-> [k \in {} |-> [type |-> "string", min |-> 0]]]

Schemas == { createPostSchema, updateSystemSettingsSchema }

FieldOk(spec, v) ==
    /\ v.t = spec.type
    /\ (spec.type = "string" => Len(v.s) >= spec.min)

(* schema.safeParse(payload): an object schema accepts an object that has  *)
(* every field of the shape with the right type, and its output keeps only *)
(* the fields of the shape.                                                *)
safeParse(schema, payload) ==
    LET ok == /\ payload.t = "object"
              /\ \A k \in DOMAIN schema.shape :
                    /\ k \in DOMAIN payload.f
                    /\ FieldOk(schema.shape[k], payload.f[k])
    IN  IF ok
        THEN [success |-> TRUE, data |-> Obj([k \in DOMAIN schema.shape |-> payload.f[k]])]
        ELSE [success |-> FALSE, data |-> JsUndefined]

Payloads ==
    { Obj(("title" :> Str(<<"a", "b", "c", "d">>)) @@ ("extra" :> Bool(TRUE))),
      Obj("title" :> Str(<<"a", "b">>)),
      Obj("maintenanceMode" :> Bool(TRUE)),
      JsNull }

(* ------------------------------------------------------------------ *)
(* Results                                                              *)
(* ------------------------------------------------------------------ *)
ErrorProps(code, message) == [t |-> "object", code |-> code, message |-> message]

ActionSuccess(data) == [data |-> data, error |-> JsNull]

(* Mutant: a Failure that carries the error as its data as well. *)
ActionFailure_withData(code, message) ==
    [data |-> ErrorProps(code, message), error |-> ErrorProps(code, message)]

ActionFailure(code, message) == [data |-> JsNull, error |-> ErrorProps(code, message)]

(* Mutant: the catch block re-throws whatever is not an ActionError. *)
CatchBlock_rethrowUnexpected(error) ==
    IF isNextJsInternalError(error) \/ ~error.isActionError
    THEN [rethrow |-> TRUE, result |-> <<>>, logged |-> <<>>]
    ELSE [rethrow |-> FALSE,
          result |-> <<ActionFailure(error.code, error.message)>>,
          logged |-> <<>>]

(* Mutant: the catch block tests instanceof ActionError before the digest. *)
CatchBlock_actionErrorFirst(error) ==
    IF error.isActionError
    THEN [rethrow |-> FALSE,
          result |-> <<ActionFailure(error.code, error.message)>>,
          logged |-> <<>>]
    ELSE IF isNextJsInternalError(error)
    THEN [rethrow |-> TRUE, result |-> <<>>, logged |-> <<>>]
    ELSE [rethrow |-> FALSE,
          result |-> <<ActionFailure("INTERNAL_SERVER_ERROR", "An unexpected error occurred.")>>,
          logged |-> <<error>>]

(* Mutant: the catch block answers every ActionError with the generic message. *)
CatchBlock_genericMessage(error) ==
    IF isNextJsInternalError(error)
    THEN [rethrow |-> TRUE, result |-> <<>>, logged |-> <<>>]
    ELSE IF error.isActionError
    THEN [rethrow |-> FALSE,
          result |-> <<ActionFailure(error.code, "An unexpected error occurred.")>>,
          logged |-> <<>>]
    ELSE [rethrow |-> FALSE,
          result |-> <<ActionFailure("INTERNAL_SERVER_ERROR", "An unexpected error occurred.")>>,
          logged |-> <<error>>]

(* Mutant: the message of an unexpected fault is put in the Failure. *)
CatchBlock_leakMessage(error) ==
    IF isNextJsInternalError(error)
    THEN [rethrow |-> TRUE, result |-> <<>>, logged |-> <<>>]
    ELSE IF error.isActionError
    THEN [rethrow |-> FALSE,
          result |-> <<ActionFailure(error.code, error.message)>>,
          logged |-> <<>>]
    ELSE [rethrow |-> FALSE,
          result |-> <<ActionFailure("INTERNAL_SERVER_ERROR", error.message)>>,
          logged |-> <<error>>]

(* Mutant: after the rethrow the catch block goes on and also makes a Failure. *)
CatchBlock_rethrowAndReturn(error) ==
    IF isNextJsInternalError(error)
    THEN [rethrow |-> TRUE,
          result |-> <<ActionFailure("INTERNAL_SERVER_ERROR", "An unexpected error occurred.")>>,
          logged |-> <<>>]
    ELSE IF error.isActionError
    THEN [rethrow |-> FALSE,
          result |-> <<ActionFailure(error.code, error.message)>>,
          logged |-> <<>>]
    ELSE [rethrow |-> FALSE,
          result |-> <<ActionFailure("INTERNAL_SERVER_ERROR", "An unexpected error occurred.")>>,
          logged |-> <<error>>]

(* The catch block of the built action: what it does with a caught value. *)
CatchBlock(error) ==
    IF isNextJsInternalError(error)
    THEN [rethrow |-> TRUE, result |-> <<>>, logged |-> <<>>]
    ELSE IF error.isActionError
    THEN [rethrow |-> FALSE,
          result |-> <<ActionFailure(error.code, error.message)>>,
          logged |-> <<>>]
    ELSE [rethrow |-> FALSE,
          result |-> <<ActionFailure("INTERNAL_SERVER_ERROR", "An unexpected error occurred.")>>,
          logged |-> <<error>>]

(* The values handlers return in this model, for the input they received. *)
(* The last is an object that carries the digest of a redirect. *)
Returns(validatedInput) ==
    { JsNull, JsUndefined, validatedInput, Obj("digest" :> Str(NEXT_REDIRECT)) }

(* ------------------------------------------------------------------ *)
(* The builder heap                                                     *)
(* ------------------------------------------------------------------ *)
(* builders[b] is an ActionBuilder object: its schema and its middleware,  *)
(* a closure identifier. Closure 0 is () => Promise.resolve({}); closure   *)
(* c > 0 is the newCombinedMiddleware created by the c-th call of use,     *)
(* closures[c].oldMiddleware the closure it captured. pipelines[a] is an   *)
(* action built by action(handler): it captured its builder as `this`.     *)
BaseMiddleware == 0

actionClient == [schema |-> SchemaUndefined, middleware |-> BaseMiddleware]

Handler == 0

(* The frames entered by calling middleware m, outermost first: calling a  *)
(* combined middleware calls the one it captured before anything else.     *)
RECURSIVE Frames(_, _)
Frames(cl, m) ==
    IF m = BaseMiddleware THEN <<>>
    ELSE <<m>> \o Frames(cl, cl[m].oldMiddleware)

Last(s) == s[Len(s)]

(* ------------------------------------------------------------------ *)
(* Invocations                                                          *)
(* ------------------------------------------------------------------ *)
(* One invocation of a built action.                                    *)
(*   pc        idle, middleware, handler, resolved or rejected          *)
(*   stack     the combined middlewares still pending, outermost first  *)
(*   ctx       the value the innermost settled middleware resolved to   *)
(*   inflight  the steps (and Handler) started and not yet settled      *)
(*   started   the steps started, in order, with the context each got   *)
(*   ended     the steps that resolved, in order, with their increments *)
(*   parsed    the number of safeParse calls                            *)
(*   hargs     the handler calls: the input and context of each         *)
(*   hret      the values the handler returned                          *)
(*   caught    the value the catch block caught, where it was raised     *)
(*             (middleware, validation or handler) and by which step    *)
(*   result    the Result the invocation resolved to                    *)
(*   raised    the value the invocation rejected with                   *)
(*   logged    the values passed to console.error                       *)
(* derived[b] records how builder b was made: the receiver it was        *)
(* derived from, by which operation, the schema given to input and the   *)
(* combined middleware made by use.                                      *)
Idle ==
    [pc |-> "idle", action |-> 0, payload |-> JsUndefined, stack |-> <<>>,
     ctx |-> EmptyCtx, inflight |-> {}, started |-> <<>>, ended |-> <<>>,
     parsed |-> 0, hargs |-> <<>>, hret |-> <<>>, caught |-> <<>>,
     result |-> <<>>, raised |-> <<>>, logged |-> <<>>]

Settled(call) == call.pc \in {"idle", "resolved", "rejected"}

(* The invocation after its try block threw `error` at `origin`. *)
Catch(call, error, origin, by) ==
    LET c == CatchBlock(error)
    IN  [call EXCEPT !.pc = IF c.rethrow THEN "rejected" ELSE "resolved",
                     !.inflight = {},
                     !.caught = <<[error |-> error, origin |-> origin, by |-> by]>>,
                     !.result = c.result,
                     !.raised = IF c.rethrow THEN <<error>> ELSE <<>>,
                     !.logged = c.logged]

(* Mutant: every pending combined middleware calls its step without       *)
(* awaiting the middleware it captured.                                    *)
Resumable_noAwait(call) ==
    { call.stack[k] : k \in DOMAIN call.stack } \ call.inflight

(* Mutant: a combined middleware calls the middleware it captured a second *)
(* time, so steps that already resolved run again.                         *)
Resumable_rerun(call) ==
    IF call.inflight # {} THEN {}
    ELSE (IF call.stack # <<>> THEN {Last(call.stack)} ELSE {})
         \cup { call.ended[k].step : k \in DOMAIN call.ended }

(* The combined middlewares of an invocation that may call their step now: *)
(* the innermost pending one, once the middleware it awaited has resolved  *)
(* (const baseCtx = await oldMiddleware(); then newMiddleware(baseCtx)).   *)
Resumable(call) ==
    IF call.stack # <<>> /\ call.inflight = {} THEN {Last(call.stack)} ELSE {}

(* Mutant: the action does not await this.middleware() before it goes on. *)
MiddlewareResolved_noAwait(call) == call.inflight = {}

(* await this.middleware() has resolved: no combined middleware is pending. *)
MiddlewareResolved(call) == call.stack = <<>> /\ call.inflight = {}

(* Mutant: baseCtx is one variable shared by all invocations: a step that  *)
(* resolves merges into the context of another invocation in progress.     *)
BaseCtx_shared(calls, i) ==
    LET others == { j \in DOMAIN calls : j # i /\ calls[j].pc = "middleware" }
    IN  IF others = {} THEN calls[i].ctx
        ELSE calls[CHOOSE j \in others : TRUE].ctx

(* const baseCtx of the combined middleware that resumes in invocation i:  *)
(* a local of that call of newCombinedMiddleware.                          *)
BaseCtx(calls, i) == calls[i].ctx

(* Mutant: the step is called with an empty context. *)
StepInput_empty(baseCtx) == EmptyCtx

(* The context newCombinedMiddleware passes to its step. *)
StepInput(baseCtx) == baseCtx

(* Mutant: result.success is not tested. *)
Validate_noCheck(schema, payload) ==
    IF schema.defined
    THEN LET result == safeParse(schema, payload)
         IN  [parsed |-> 1, success |-> TRUE, validatedInput |-> result.data]
    ELSE [parsed |-> 0, success |-> TRUE, validatedInput |-> payload]

(* Mutant: the handler is given the raw payload after a successful parse. *)
Validate_raw(schema, payload) ==
    IF schema.defined
    THEN LET result == safeParse(schema, payload)
         IN  [parsed |-> 1, success |-> result.success, validatedInput |-> payload]
    ELSE [parsed |-> 0, success |-> TRUE, validatedInput |-> payload]

(* Mutant: the payload is parsed whether or not a schema is set. *)
Validate_always(schema, payload) ==
    LET result == safeParse(schema, payload)
    IN  [parsed |-> 1, success |-> result.success, validatedInput |-> result.data]

(* if (this.schema) { safeParse ... } else { validatedInput = payload } *)
Validate(schema, payload) ==
    IF schema.defined
    THEN LET result == safeParse(schema, payload)
         IN  [parsed |-> 1, success |-> result.success, validatedInput |-> result.data]
    ELSE [parsed |-> 0, success |-> TRUE, validatedInput |-> payload]

ValidationError ==
    ActionError(FromProps("VALIDATION_ERROR", "Invalid input provided."))

Objects == (Len(builders) - 1) + Len(pipelines)

(* ------------------------------------------------------------------ *)
(* The hook useAction                                                   *)
(* ------------------------------------------------------------------ *)
(* hook.action is the built action the hook was given, hook.initial its *)
(* option `initial`, hook.state the state object, and hook.calls[i] the *)
(* call of execute that awaits invocation i: its options, what it       *)
(* returned or threw and the callbacks it called, in order.             *)

(* v ?? d *)
NullishCoalescing(v, d) == IF v.t \in {"null", "undefined"} THEN d ELSE v

(* The values of the option `initial` in this model: absent, or a string. *)
Initials == { JsUndefined, Str(<<"i">>) }

getInitialState(initial) ==
    [isLoading |-> FALSE, isError |-> FALSE, error |-> JsNull,
     data |-> NullishCoalescing(initial, JsNull)]

NoExecute ==
    [pc |-> "idle", execOptions |-> [reset |-> FALSE], returned |-> <<>>,
     thrown |-> <<>>, callbacks |-> <<>>]

(* No component uses the hook. *)
NoHook ==
    [action |-> 0, initial |-> JsUndefined, state |-> getInitialState(JsUndefined),
     calls |-> [i \in {1} |-> NoExecute]]

(* The state execute sets before it calls the action. *)
LoadingState(prevState, execOptions, initial) ==
    IF execOptions.reset
    THEN [getInitialState(initial) EXCEPT !.isLoading = TRUE]
    ELSE [prevState EXCEPT !.isLoading = TRUE, !.isError = FALSE, !.error = JsNull]

TypeError == PlainError("Cannot read properties of null (reading 'message')")

(* The catch block of execute, entered with the value e the action     *)
(* rejected with: e.message is read, which throws for null.            *)
ExecuteCatch(e) ==
    IF e.isNull
    THEN [throws |-> TRUE, result |-> <<>>]
    ELSE [throws |-> FALSE,
          result |-> <<[data |-> JsNull,
                        error |-> ErrorProps("UNEXPECTED_ERROR",
                                             IF e.message \in {Undefined, ""}
                                             THEN "An unexpected error occurred."
                                             ELSE e.message)]>>]

(* if (result.error) *)
Truthy(v) == v.t \notin {"null", "undefined"}

(* Mutant: a failed execute keeps the data of the previous state. *)
FinalState_keepData(result, execOptions, initial) ==
    IF Truthy(result.error)
    THEN [isLoading |-> FALSE, isError |-> TRUE, error |-> result.error,
          data |-> IF execOptions.reset THEN NullishCoalescing(initial, JsNull)
                   ELSE hook.state.data]
    ELSE [isLoading |-> FALSE, isError |-> FALSE, error |-> JsNull,
          data |-> result.data]

(* finalState of execute for the result of the action. *)
FinalState(result, execOptions, initial) ==
    IF Truthy(result.error)
    THEN [isLoading |-> FALSE, isError |-> TRUE, error |-> result.error,
          data |-> IF execOptions.reset THEN NullishCoalescing(initial, JsNull)
                   ELSE JsNull]
    ELSE [isLoading |-> FALSE, isError |-> FALSE, error |-> JsNull,
          data |-> result.data]

(* Mutant: the callbacks of the execute call run before those of the hook, *)
(* and the state is set after them.                                        *)
Callbacks_executeLevelFirst(result, finalState) ==
    LET family == IF Truthy(result.error) THEN "onError" ELSE "onSuccess"
    IN  <<[level |-> "execOptions", callback |-> family, state |-> finalState],
          [level |-> "options", callback |-> family, state |-> finalState],
          [level |-> "execOptions", callback |-> "onSettled", state |-> finalState],
          [level |-> "options", callback |-> "onSettled", state |-> finalState],
          [level |-> "hook", callback |-> "setState", state |-> finalState]>>

(* What execute calls once it has finalState, in order: setState, then  *)
(* the callbacks of the hook's options and of the execute call's, each  *)
(* with finalState.                                                     *)
Callbacks(result, finalState) ==
    LET family == IF Truthy(result.error) THEN "onError" ELSE "onSuccess"
    IN  <<[level |-> "hook", callback |-> "setState", state |-> finalState],
          [level |-> "options", callback |-> family, state |-> finalState],
          [level |-> "execOptions", callback |-> family, state |-> finalState],
          [level |-> "options", callback |-> "onSettled", state |-> finalState],
          [level |-> "execOptions", callback |-> "onSettled", state |-> finalState]>>

(* ------------------------------------------------------------------ *)
(* Initial state                                                        *)
(* ------------------------------------------------------------------ *)
Init ==
    /\ builders = <<actionClient>>
    /\ closures = <<>>
    /\ pipelines = <<>>
    /\ inv = [i \in {1} |-> Idle]
    /\ derived = <<[from |-> 0, op |-> "create", schema |-> SchemaUndefined, step |-> 0]>>
    /\ hook = NoHook

(* ------------------------------------------------------------------ *)
(* Builder operations                                                   *)
(* ------------------------------------------------------------------ *)
(* Mutant: the configuration is assigned to the receiver as well. *)
Construct_assign(heap, this, config) ==
    Append([heap EXCEPT ![this] = config], config)

(* new ActionBuilder(config), called by a method of builder `this`: the    *)
(* heap gets one more builder, the constructor assigns only its fields.    *)
Construct(heap, this, config) == Append(heap, config)

(* Mutant: the new builder starts again from the base middleware. *)
InputConfig_dropMiddleware(self, schema) ==
    [schema |-> schema, middleware |-> BaseMiddleware]

(* Mutant: a schema the receiver already has is kept. *)
InputConfig_firstWins(self, schema) ==
    [schema |-> IF self.schema.defined THEN self.schema ELSE schema,
     middleware |-> self.middleware]

(* { ...this, schema } *)
InputConfig(self, schema) ==
    [schema |-> schema, middleware |-> self.middleware]

(* { ...this, middleware: newCombinedMiddleware } *)
UseConfig(self, newCombinedMiddleware) ==
    [schema |-> self.schema, middleware |-> newCombinedMiddleware]

(* this.input(schema): new ActionBuilder({ ...this, schema }) *)
input(this, schema) ==
    /\ Objects < MaxObjects
    /\ builders' = Construct(builders, this, InputConfig(builders[this], schema))
    /\ derived' = Append(derived, [from |-> this, op |-> "input", schema |-> schema, step |-> 0])
    /\ UNCHANGED <<closures, pipelines, inv, hook>>

(* this.use(newMiddleware): new ActionBuilder({ ...this, middleware: newCombinedMiddleware }) *)
use(this) ==
    /\ Objects < MaxObjects
    /\ closures' = Append(closures, [oldMiddleware |-> builders[this].middleware])
    /\ builders' = Construct(builders, this, UseConfig(builders[this], Len(closures) + 1))
    /\ derived' = Append(derived, [from |-> this, op |-> "use", schema |-> SchemaUndefined,
                                    step |-> Len(closures) + 1])
    /\ UNCHANGED <<pipelines, inv, hook>>

(* this.action(handler): the returned function captures this and handler *)
action(this) ==
    /\ Objects < MaxObjects
    /\ pipelines' = Append(pipelines, [this |-> this])
    /\ UNCHANGED <<builders, closures, inv, derived, hook>>

(* ------------------------------------------------------------------ *)
(* Invocation                                                           *)
(* ------------------------------------------------------------------ *)
(* The built action is called with payload: it calls this.middleware(),   *)
(* which enters every combined middleware down to the base one.           *)
Entered(a, payload) ==
    [Idle EXCEPT !.pc = "middleware",
                 !.action = a,
                 !.payload = payload,
                 !.stack = Frames(closures, builders[pipelines[a].this].middleware),
                 !.ctx = EmptyCtx]

Invoke(i, a, payload) ==
    /\ Settled(inv[i])
    /\ inv' = [inv EXCEPT ![i] = Entered(a, payload)]
    /\ UNCHANGED <<builders, closures, pipelines, derived, hook>>

(* A combined middleware resumes with baseCtx and calls its step. *)
StepStart(i) ==
    /\ inv[i].pc = "middleware"
    /\ \E c \in Resumable(inv[i]) :
          inv' = [inv EXCEPT ![i].inflight = @ \cup {c},
                             ![i].started = Append(@, [step |-> c,
                                                       ctx |-> StepInput(BaseCtx(inv, i))])]
    /\ UNCHANGED <<builders, closures, pipelines, derived, hook>>

(* A step resolves with newCtx: its combined middleware returns            *)
(* { ...baseCtx, ...newCtx }.                                              *)
StepResolve(i, newCtx) ==
    /\ inv[i].pc = "middleware"
    /\ \E c \in inv[i].inflight :
          inv' = [inv EXCEPT ![i].inflight = @ \ {c},
                             ![i].ended = Append(@, [step |-> c, newCtx |-> newCtx]),
                             ![i].stack = SelectSeq(@, LAMBDA f : f # c),
                             ![i].ctx = Spread(BaseCtx(inv, i), newCtx)]
    /\ UNCHANGED <<builders, closures, pipelines, derived, hook>>

(* A step throws: every pending combined middleware rejects and the catch  *)
(* block of the action runs.                                               *)
StepThrow(i, error) ==
    /\ inv[i].pc = "middleware"
    /\ \E c \in inv[i].inflight :
          inv' = [inv EXCEPT ![i] = Catch(inv[i], error, "middleware", c)]
    /\ UNCHANGED <<builders, closures, pipelines, derived, hook>>

(* await this.middleware() resolved: validate the input and call the       *)
(* handler, or throw the validation error.                                 *)
Continue(i) ==
    /\ inv[i].pc = "middleware"
    /\ MiddlewareResolved(inv[i])
    /\ LET this == builders[pipelines[inv[i].action].this]
           context == inv[i].ctx
           v == Validate(this.schema, inv[i].payload)
           call == [inv[i] EXCEPT !.parsed = @ + v.parsed]
       IN  inv' = [inv EXCEPT ![i] =
                     IF ~v.success
                     THEN Catch(call, ValidationError, "validation", Handler)
                     ELSE [call EXCEPT !.pc = "handler",
                                       !.inflight = {Handler},
                                       !.hargs = Append(@, [data |-> v.validatedInput,
                                                            ctx |-> context])]]
    /\ UNCHANGED <<builders, closures, pipelines, derived, hook>>

(* The handler resolves with data: return { data, error: null }. *)
HandlerReturn(i) ==
    /\ inv[i].pc = "handler"
    /\ \E data \in Returns(Last(inv[i].hargs).data) :
          inv' = [inv EXCEPT ![i].pc = "resolved",
                             ![i].inflight = {},
                             ![i].hret = Append(@, data),
                             ![i].result = <<ActionSuccess(data)>>]
    /\ UNCHANGED <<builders, closures, pipelines, derived, hook>>

(* The handler throws: the catch block runs. *)
HandlerThrow(i, error) ==
    /\ inv[i].pc = "handler"
    /\ inv' = [inv EXCEPT ![i] = Catch(inv[i], error, "handler", Handler)]
    /\ UNCHANGED <<builders, closures, pipelines, derived, hook>>

Next ==
    \/ \E this \in 1..Len(builders), schema \in Schemas : input(this, schema)
    \/ \E this \in 1..Len(builders) : use(this)
    \/ \E this \in 1..Len(builders) : action(this)
    \/ \E i \in DOMAIN inv, a \in 1..Len(pipelines), payload \in Payloads :
          Invoke(i, a, payload)
    \/ \E i \in DOMAIN inv : StepStart(i)
    \/ \E i \in DOMAIN inv, newCtx \in Increments : StepResolve(i, newCtx)
    \/ \E i \in DOMAIN inv, error \in Faults : StepThrow(i, error)
    \/ \E i \in DOMAIN inv : Continue(i)
    \/ \E i \in DOMAIN inv : HandlerReturn(i)
    \/ \E i \in DOMAIN inv, error \in Faults : HandlerThrow(i, error)

Spec == Init /\ [][Next]_vars

(* ------------------------------------------------------------------ *)
(* Two invocations in flight                                            *)
(* ------------------------------------------------------------------ *)
(* The heap after the example module has been loaded, with two requests *)
(* served at a time whose calls interleave at their awaits:             *)
(*   deleteItem = actionClient.action(..)                                *)
(*   createPost = actionClient.input(createPostSchema).action(..)        *)
(*   protectedActionClient = actionClient.use(authMiddleware)            *)
(*   adminProtectedActionClient = protectedActionClient.use(adminMiddleware) *)
(*   getMyProfile = protectedActionClient.action(..)                     *)
(*   setMaintenanceMode = adminProtectedActionClient                     *)
(*       .input(updateSystemSettingsSchema).action(..)                   *)
ActionsModule ==
    /\ builders = <<actionClient,
                    [schema |-> createPostSchema, middleware |-> BaseMiddleware],
                    [schema |-> SchemaUndefined, middleware |-> 1],
                    [schema |-> SchemaUndefined, middleware |-> 2],
                    [schema |-> updateSystemSettingsSchema, middleware |-> 2]>>
    /\ closures = <<[oldMiddleware |-> BaseMiddleware], [oldMiddleware |-> 1]>>
    /\ pipelines = <<[this |-> 1], [this |-> 2], [this |-> 3], [this |-> 5]>>
    /\ derived = <<[from |-> 0, op |-> "create", schema |-> SchemaUndefined, step |-> 0],
                   [from |-> 1, op |-> "input", schema |-> createPostSchema, step |-> 0],
                   [from |-> 1, op |-> "use", schema |-> SchemaUndefined, step |-> 1],
                   [from |-> 3, op |-> "use", schema |-> SchemaUndefined, step |-> 2],
                   [from |-> 4, op |-> "input", schema |-> updateSystemSettingsSchema,
                    step |-> 0]>>

InitConcurrent ==
    /\ ActionsModule
    /\ inv = [i \in {1, 2} |-> Idle]
    /\ hook = NoHook

(* The built actions are called; no builder is made while requests run. *)
NextConcurrent ==
    \/ \E i \in DOMAIN inv, a \in 1..Len(pipelines), payload \in Payloads :
          Invoke(i, a, payload)
    \/ \E i \in DOMAIN inv : StepStart(i)
    \/ \E i \in DOMAIN inv, newCtx \in Increments : StepResolve(i, newCtx)
    \/ \E i \in DOMAIN inv, error \in Faults : StepThrow(i, error)
    \/ \E i \in DOMAIN inv : Continue(i)
    \/ \E i \in DOMAIN inv : HandlerReturn(i)
    \/ \E i \in DOMAIN inv, error \in Faults : HandlerThrow(i, error)

SpecConcurrent == InitConcurrent /\ [][NextConcurrent]_vars

(* ------------------------------------------------------------------ *)
(* Every shape of thrown value                                          *)
(* ------------------------------------------------------------------ *)
DYNAMIC == <<"D", "Y", "N", "A", "M", "I", "C">>

(* Thrown values of every shape isNextJsInternalError tells apart: the  *)
(* faults above, a string, a function with a NEXT_ digest, objects with *)
(* a digest that is undefined, a number, exactly "NEXT_", "NEXT", or a  *)
(* string with another prefix.                                          *)
ThrownValues ==
    Faults \cup
    { Thrown("string", FALSE, FALSE, "undefined", <<>>, FALSE, Undefined, Undefined),
      Thrown("function", FALSE, TRUE, "string", NEXT_REDIRECT, FALSE, Undefined, Undefined),
      Thrown("object", FALSE, TRUE, "undefined", <<>>, FALSE, Undefined, "boom"),
      Thrown("object", FALSE, TRUE, "number", <<>>, FALSE, Undefined, "boom"),
      WithDigest(PlainError("boom"), NEXT_),
      WithDigest(PlainError("boom"), SubSeq(NEXT_, 1, 4)),
      WithDigest(PlainError("boom"), DYNAMIC),
      WithDigest(ActionError(FromProps("FORBIDDEN", "Not an admin.")), DYNAMIC) }

(* One request at a time is served by the actions of the example module, *)
(* whose steps and handlers throw any of these values.                   *)
InitClassify ==
    /\ ActionsModule
    /\ inv = [i \in {1} |-> Idle]
    /\ hook = NoHook

NextClassify ==
    \/ \E i \in DOMAIN inv, a \in 1..Len(pipelines), payload \in Payloads :
          Invoke(i, a, payload)
    \/ \E i \in DOMAIN inv : StepStart(i)
    \/ \E i \in DOMAIN inv, newCtx \in Increments : StepResolve(i, newCtx)
    \/ \E i \in DOMAIN inv, error \in ThrownValues : StepThrow(i, error)
    \/ \E i \in DOMAIN inv : Continue(i)
    \/ \E i \in DOMAIN inv : HandlerReturn(i)
    \/ \E i \in DOMAIN inv, error \in ThrownValues : HandlerThrow(i, error)

SpecClassify == InitClassify /\ [][NextClassify]_vars

(* ------------------------------------------------------------------ *)
(* Steps and handlers that settle                                       *)
(* ------------------------------------------------------------------ *)
(* The invocation served in InitClassify. *)
Slots == {1}

(* The event loop resumes every continuation that is ready (StepStart,  *)
(* Continue), and every promise a middleware step or a handler returned *)
(* is eventually resolved or rejected.                                  *)
Fairness ==
    \A i \in Slots :
        /\ WF_vars(StepStart(i))
        /\ WF_vars((\E newCtx \in Increments : StepResolve(i, newCtx))
                      \/ (\E error \in Faults : StepThrow(i, error)))
        /\ WF_vars(Continue(i))
        /\ WF_vars(HandlerReturn(i) \/ (\E error \in Faults : HandlerThrow(i, error)))

SpecSettling == InitClassify /\ [][NextConcurrent]_vars /\ Fairness

(* ------------------------------------------------------------------ *)
(* A component that uses the hook                                       *)
(* ------------------------------------------------------------------ *)
(* useAction(getMyProfile, { initial }) in a component; up to two calls *)
(* of execute are in progress at a time.                                *)
HookActions == {3}

(* The payloads the component passes to execute. *)
HookPayloads == { Obj("maintenanceMode" :> Bool(TRUE)) }

InitHook ==
    /\ ActionsModule
    /\ inv = [i \in {1, 2} |-> Idle]
    /\ \E a \in HookActions, initial \in Initials :
          hook = [action |-> a, initial |-> initial,
                  state |-> getInitialState(initial),
                  calls |-> [i \in {1, 2} |-> NoExecute]]

(* execute(payload, execOptions) up to its await: the loading state is  *)
(* set and the action is called.                                        *)
execute(i, payload, execOptions) ==
    /\ hook.calls[i].pc # "awaiting"
    /\ hook' = [hook EXCEPT
                  !.state = LoadingState(@, execOptions, hook.initial),
                  !.calls[i] = [NoExecute EXCEPT !.pc = "awaiting",
                                                 !.execOptions = execOptions]]
    /\ inv' = [inv EXCEPT ![i] = Entered(hook.action, payload)]
    /\ UNCHANGED <<builders, closures, pipelines, derived>>

(* The awaited action settled: execute goes through its catch block if  *)
(* the action rejected, sets the final state, calls the callbacks and   *)
(* returns the result.                                                  *)
executeResume(i) ==
    /\ hook.calls[i].pc = "awaiting"
    /\ inv[i].pc \in {"resolved", "rejected"}
    /\ LET outcome == IF inv[i].pc = "rejected"
                      THEN ExecuteCatch(inv[i].raised[1])
                      ELSE [throws |-> FALSE, result |-> inv[i].result]
       IN  IF outcome.throws
           THEN hook' = [hook EXCEPT !.calls[i].pc = "rejected",
                                     !.calls[i].thrown = <<TypeError>>]
           ELSE LET result == outcome.result[1]
                    finalState == FinalState(result, hook.calls[i].execOptions,
                                             hook.initial)
                IN  hook' = [hook EXCEPT
                               !.state = finalState,
                               !.calls[i].pc = "returned",
                               !.calls[i].returned = <<result>>,
                               !.calls[i].callbacks = Callbacks(result, finalState)]
    /\ UNCHANGED <<builders, closures, pipelines, inv, derived>>

(* reset(): setState(getInitialState()) *)
reset ==
    /\ hook' = [hook EXCEPT !.state = getInitialState(hook.initial)]
    /\ UNCHANGED <<builders, closures, pipelines, inv, derived>>

NextHook ==
    \/ \E i \in DOMAIN inv, payload \in HookPayloads, r \in BOOLEAN :
          execute(i, payload, [reset |-> r])
    \/ \E i \in DOMAIN inv : executeResume(i)
    \/ reset
    \/ \E i \in DOMAIN inv : StepStart(i)
    \/ \E i \in DOMAIN inv, newCtx \in Increments : StepResolve(i, newCtx)
    \/ \E i \in DOMAIN inv, error \in Faults : StepThrow(i, error)
    \/ \E i \in DOMAIN inv : Continue(i)
    \/ \E i \in DOMAIN inv : HandlerReturn(i)
    \/ \E i \in DOMAIN inv, error \in Faults : HandlerThrow(i, error)

SpecHook == InitHook /\ [][NextHook]_vars

(* The same component when nothing calls reset(). *)
NextExecute ==
    \/ \E i \in DOMAIN inv, payload \in HookPayloads, r \in BOOLEAN :
          execute(i, payload, [reset |-> r])
    \/ \E i \in DOMAIN inv : executeResume(i)
    \/ \E i \in DOMAIN inv : StepStart(i)
    \/ \E i \in DOMAIN inv, newCtx \in Increments : StepResolve(i, newCtx)
    \/ \E i \in DOMAIN inv, error \in Faults : StepThrow(i, error)
    \/ \E i \in DOMAIN inv : Continue(i)
    \/ \E i \in DOMAIN inv : HandlerReturn(i)
    \/ \E i \in DOMAIN inv, error \in Faults : HandlerThrow(i, error)

SpecExecute == InitHook /\ [][NextExecute]_vars

(* ------------------------------------------------------------------ *)
(* Vocabulary of the properties                                         *)
(* ------------------------------------------------------------------ *)
Calls == { inv[i] : i \in DOMAIN inv }

Reverse(s) == [k \in 1..Len(s) |-> s[Len(s) + 1 - k]]

(* The builder an invocation's action was built from. *)
BuilderOf(call) == builders[pipelines[call.action].this]

(* The middleware steps of an invocation's pipeline, in attachment order. *)
Chain(call) == Reverse(Frames(closures, BuilderOf(call).middleware))

(* A host control signal: a non-null object whose digest is a string that *)
(* starts with "NEXT_".                                                   *)
HostControlSignal(e) ==
    /\ e.typeOf = "object"
    /\ ~e.isNull
    /\ e.hasDigest
    /\ e.digestType = "string"
    /\ Len(e.digest) >= 5
    /\ \A k \in 1..5 : e.digest[k] = NEXT_[k]

IsResult(r) ==
    /\ DOMAIN r = {"data", "error"}
    /\ r.error.t \in {"null", "object"}

(* ------------------------------------------------------------------ *)
(* C1                                                                   *)
(* ------------------------------------------------------------------ *)
(* C1: an invocation rejects only with a host control signal raised     *)
(* inside it; every other fault raised by a middleware step, by         *)
(* validation or by the handler leaves it resolved to a Result.         *)
C1_NeverRejects ==
    \A call \in Calls :
        /\ call.pc = "rejected" =>
              /\ call.caught # <<>>
              /\ HostControlSignal(call.caught[1].error)
              /\ call.raised = <<call.caught[1].error>>
        /\ (call.caught # <<>> /\ ~HostControlSignal(call.caught[1].error)) =>
              /\ call.pc = "resolved"
              /\ call.raised = <<>>
              /\ Len(call.result) = 1
              /\ IsResult(call.result[1])

(* An unexpected fault of the handler, behind two middleware steps and a *)
(* schema, ended in a resolved Result.                                   *)
C1_Witness ==
    \E call \in Calls :
        /\ call.pc = "resolved"
        /\ call.caught # <<>>
        /\ call.caught[1].origin = "handler"
        /\ ~call.caught[1].error.isActionError
        /\ Len(Chain(call)) >= 2
        /\ BuilderOf(call).schema.defined

(* ------------------------------------------------------------------ *)
(* C2                                                                   *)
(* ------------------------------------------------------------------ *)
IsNull(v) == v.t = "null"

(* C2 as stated: every Result an invocation resolves to has exactly one *)
(* of data and error non-null.                                          *)
C2_ExactlyOneNonNull ==
    \A call \in Calls :
        call.pc = "resolved" =>
            LET r == call.result[1]
            IN  /\ ~(~IsNull(r.data) /\ ~IsNull(r.error))
                /\ ~(IsNull(r.data) /\ IsNull(r.error))

(* C2 amended: data and error are never both non-null; error is non-null *)
(* exactly when a fault was caught, and then data is null; otherwise     *)
(* error is null and data is the value the handler returned, so data and *)
(* error are both null exactly when the handler returned null.           *)
C2_ErrorDiscriminates ==
    \A call \in Calls :
        call.pc = "resolved" =>
            LET r == call.result[1]
            IN  /\ ~(~IsNull(r.data) /\ ~IsNull(r.error))
                /\ ~IsNull(r.error) <=> call.caught # <<>>
                /\ ~IsNull(r.error) => IsNull(r.data)
                /\ IsNull(r.error) => (Len(call.hret) = 1 /\ r.data = call.hret[1])
                /\ (IsNull(r.data) /\ IsNull(r.error)) <=>
                       (call.caught = <<>> /\ call.hret = <<JsNull>>)

(* A handler returned null and the invocation resolved to a Result with  *)
(* data and error both null.                                             *)
C2_Witness ==
    \E call \in Calls :
        /\ call.pc = "resolved"
        /\ call.hret = <<JsNull>>
        /\ call.result = <<[data |-> JsNull, error |-> JsNull]>>

(* ------------------------------------------------------------------ *)
(* C3                                                                   *)
(* ------------------------------------------------------------------ *)
(* C3: a host control signal raised by a middleware step or the handler *)
(* is re-raised as the same value and no Result is produced, also when  *)
(* the value is an ActionError.                                         *)
C3_SignalReRaised ==
    \A call \in Calls :
        (/\ call.caught # <<>>
         /\ call.caught[1].origin \in {"middleware", "handler"}
         /\ HostControlSignal(call.caught[1].error)) =>
            /\ call.pc = "rejected"
            /\ call.raised = <<call.caught[1].error>>
            /\ call.result = <<>>
            /\ call.logged = <<>>

(* A middleware step threw an ActionError that carries the marker and    *)
(* the invocation rejected with it.                                      *)
C3_Witness ==
    \E call \in Calls :
        /\ call.pc = "rejected"
        /\ call.caught[1].origin = "middleware"
        /\ call.caught[1].error.isActionError
        /\ call.raised = <<call.caught[1].error>>

(* ------------------------------------------------------------------ *)
(* C4                                                                   *)
(* ------------------------------------------------------------------ *)
StepsOf(log) == { log[k].step : k \in DOMAIN log }

(* The position of step c in the attachment order of an invocation. *)
PositionOf(call, c) == CHOOSE k \in DOMAIN Chain(call) : Chain(call)[k] = c

(* C4: a declared error raised by the i-th middleware step resolves the *)
(* invocation to the Failure with that code and message; no step        *)
(* attached after step i started, nothing was validated and the handler *)
(* was not called.                                                      *)
C4_DeclaredErrorAborts ==
    \A call \in Calls :
        (/\ call.caught # <<>>
         /\ call.caught[1].origin = "middleware"
         /\ call.caught[1].error.isActionError
         /\ ~HostControlSignal(call.caught[1].error)) =>
            LET e == call.caught[1].error
                i == PositionOf(call, call.caught[1].by)
            IN  /\ call.pc = "resolved"
                /\ call.result = <<[data |-> JsNull,
                                    error |-> [t |-> "object", code |-> e.code,
                                               message |-> e.message]]>>
                /\ \A k \in DOMAIN Chain(call) :
                      k > i => Chain(call)[k] \notin StepsOf(call.started)
                /\ call.parsed = 0
                /\ call.hargs = <<>>

(* The first of two middleware steps, in a pipeline with a schema, threw *)
(* UNAUTHORIZED / "Not logged in." and the invocation resolved.          *)
C4_Witness ==
    \E call \in Calls :
        /\ call.pc = "resolved"
        /\ call.caught # <<>>
        /\ call.caught[1].origin = "middleware"
        /\ Len(Chain(call)) >= 2
        /\ call.caught[1].by = Chain(call)[1]
        /\ BuilderOf(call).schema.defined
        /\ call.result[1].error.code = "UNAUTHORIZED"
        /\ call.result[1].error.message = "Not logged in."

(* ------------------------------------------------------------------ *)
(* C5                                                                   *)
(* ------------------------------------------------------------------ *)
(* C5: the steps of an invocation start in attachment order, each after *)
(* the one before it resolved; the handler starts after every step      *)
(* resolved; at most one of them is in progress at any time.            *)
C5_Sequential ==
    \A call \in Calls :
        call.pc # "idle" =>
            LET chain == Chain(call)
                ns == Len(call.started)
                ne == Len(call.ended)
            IN  /\ Cardinality(call.inflight) <= 1
                /\ ns <= Len(chain)
                /\ \A k \in 1..ns : call.started[k].step = chain[k]
                /\ \A k \in 1..ne : call.ended[k].step = chain[k]
                /\ ne <= ns
                /\ ns <= ne + 1
                /\ \A c \in call.inflight :
                      \/ c = Handler /\ ne = Len(chain) /\ ns = ne
                      \/ c # Handler /\ ns = ne + 1 /\ c = chain[ns]
                /\ call.hargs # <<>> => (ne = Len(chain) /\ ns = ne)

(* The second of at least two steps is in progress, suspended, after the *)
(* first one resolved.                                                   *)
C5_Witness ==
    \E call \in Calls :
        /\ call.pc = "middleware"
        /\ Len(Chain(call)) >= 2
        /\ call.inflight = {Chain(call)[2]}
        /\ Len(call.ended) = 1

(* ------------------------------------------------------------------ *)
(* C6                                                                   *)
(* ------------------------------------------------------------------ *)
(* The right-biased merge of the increments log[1..n]: each key has the *)
(* value of the last increment that has the key.                        *)
IsMergeOf(ctx, log, n) ==
    /\ DOMAIN ctx = UNION { DOMAIN log[k].newCtx : k \in 1..n }
    /\ \A key \in DOMAIN ctx :
          \E k \in 1..n :
              /\ key \in DOMAIN log[k].newCtx
              /\ ctx[key] = log[k].newCtx[key]
              /\ \A j \in (k + 1)..n : key \notin DOMAIN log[j].newCtx

(* C6: the context the handler receives is the right-biased merge of    *)
(* the increments of all middleware steps in attachment order.          *)
C6_HandlerContext ==
    \A call \in Calls :
        \A h \in DOMAIN call.hargs :
            /\ Len(call.ended) = Len(Chain(call))
            /\ IsMergeOf(call.hargs[h].ctx, call.ended, Len(call.ended))

(* m1 returned {a: 1}, m2 returned {a: 2, b: 3}, the handler got         *)
(* {a: 2, b: 3}; and a key only an earlier step returned is preserved.   *)
C6_Witness ==
    \E call \in Calls :
        /\ Len(call.ended) = 2
        /\ call.ended[1].newCtx = ("a" :> 1)
        /\ call.ended[2].newCtx = (("a" :> 2) @@ ("b" :> 3))
        /\ call.hargs # <<>>
        /\ call.hargs[1].ctx = (("a" :> 2) @@ ("b" :> 3))

(* ------------------------------------------------------------------ *)
(* C7                                                                   *)
(* ------------------------------------------------------------------ *)
(* C7: the k-th step receives exactly the right-biased merge of the     *)
(* increments of steps 1..k-1, the empty context for the first step.    *)
C7_StepContext ==
    \A call \in Calls :
        \A k \in DOMAIN call.started :
            /\ call.started[k].step = Chain(call)[k]
            /\ Len(call.ended) >= k - 1
            /\ IsMergeOf(call.started[k].ctx, call.ended, k - 1)

(* The third step received {a: 1, b: 3}: a from the second step, which   *)
(* shadows the first, and b from the first.                              *)
C7_Witness ==
    \E call \in Calls :
        /\ Len(call.started) = 3
        /\ call.ended[1].newCtx = (("a" :> 2) @@ ("b" :> 3))
        /\ call.ended[2].newCtx = ("a" :> 1)
        /\ call.started[3].ctx = (("a" :> 1) @@ ("b" :> 3))
        /\ call.started[1].ctx = EmptyCtx

(* ------------------------------------------------------------------ *)
(* C8                                                                   *)
(* ------------------------------------------------------------------ *)
(* Every middleware step of the invocation resolved. *)
ChainSucceeded(call) ==
    /\ call.pc # "idle"
    /\ Len(call.ended) = Len(Chain(call))

(* The invocation is past await this.middleware(). *)
Continued(call) == ChainSucceeded(call) /\ call.pc # "middleware"

Accepts(schema, payload) == safeParse(schema, payload).success

(* C8: with a schema and a middleware chain that succeeded, a payload   *)
(* the schema rejects resolves the invocation to the one                *)
(* VALIDATION_ERROR Failure and the handler is never called.            *)
C8_InvalidPayload ==
    \A call \in Calls :
        (/\ ChainSucceeded(call)
         /\ BuilderOf(call).schema.defined
         /\ ~Accepts(BuilderOf(call).schema, call.payload)) =>
            /\ call.hargs = <<>>
            /\ Continued(call) =>
                  /\ call.pc = "resolved"
                  /\ call.result =
                        <<[data |-> JsNull,
                           error |-> [t |-> "object", code |-> "VALIDATION_ERROR",
                                      message |-> "Invalid input provided."]]>>

(* The payload {title: "ab"} was rejected by createPostSchema behind a    *)
(* middleware step that succeeded.                                       *)
C8_Witness ==
    \E call \in Calls :
        /\ call.pc = "resolved"
        /\ Len(call.ended) >= 1
        /\ BuilderOf(call).schema = createPostSchema
        /\ call.payload = Obj("title" :> Str(<<"a", "b">>))
        /\ call.caught # <<>>
        /\ call.caught[1].origin = "validation"
        /\ call.result[1].error.code = "VALIDATION_ERROR"

(* ------------------------------------------------------------------ *)
(* C9                                                                   *)
(* ------------------------------------------------------------------ *)
(* C9: with a schema that accepts the payload and a middleware chain    *)
(* that succeeded, the handler is called exactly once, with the output  *)
(* of the validator and the accumulated context; if it returns v the    *)
(* invocation resolves to {data: v, error: null}.                       *)
C9_ValidPayload ==
    \A call \in Calls :
        (/\ Continued(call)
         /\ BuilderOf(call).schema.defined
         /\ Accepts(BuilderOf(call).schema, call.payload)) =>
            /\ Len(call.hargs) = 1
            /\ call.hargs[1].data = safeParse(BuilderOf(call).schema, call.payload).data
            /\ call.hargs[1].ctx = call.ctx
            /\ IsMergeOf(call.ctx, call.ended, Len(call.ended))
            /\ Len(call.hret) <= 1
            /\ call.hret # <<>> =>
                  /\ call.pc = "resolved"
                  /\ call.result = <<[data |-> call.hret[1], error |-> JsNull]>>

(* The payload {title: "abcd", extra: true} was accepted, the handler    *)
(* got {title: "abcd"} and returned it, behind a step that returned      *)
(* {a: 1}.                                                               *)
C9_Witness ==
    \E call \in Calls :
        /\ call.pc = "resolved"
        /\ BuilderOf(call).schema = createPostSchema
        /\ call.payload = Obj(("title" :> Str(<<"a", "b", "c", "d">>)) @@ ("extra" :> Bool(TRUE)))
        /\ call.hargs = <<[data |-> Obj("title" :> Str(<<"a", "b", "c", "d">>)),
                           ctx |-> ("a" :> 1)]>>
        /\ call.hret = <<Obj("title" :> Str(<<"a", "b", "c", "d">>))>>
        /\ call.result[1].data # call.payload

(* ------------------------------------------------------------------ *)
(* C10                                                                  *)
(* ------------------------------------------------------------------ *)
(* C10: without a schema nothing is parsed, the handler receives the    *)
(* payload of the invocation itself, and no validation error is raised  *)
(* by the action.                                                       *)
C10_NoSchema ==
    \A call \in Calls :
        (call.pc # "idle" /\ ~BuilderOf(call).schema.defined) =>
            /\ call.parsed = 0
            /\ \A h \in DOMAIN call.hargs : call.hargs[h].data = call.payload
            /\ Continued(call) => Len(call.hargs) = 1
            /\ call.caught # <<>> => call.caught[1].origin # "validation"

(* Without a schema, behind a middleware step, the handler received the  *)
(* payload null.                                                         *)
C10_Witness ==
    \E call \in Calls :
        /\ call.pc = "handler"
        /\ ~BuilderOf(call).schema.defined
        /\ Len(Chain(call)) >= 1
        /\ call.payload = JsNull
        /\ call.hargs[1].data = JsNull

(* ------------------------------------------------------------------ *)
(* C11                                                                  *)
(* ------------------------------------------------------------------ *)
(* An unexpected fault: neither a host control signal nor an ActionError. *)
Unexpected(e) == ~HostControlSignal(e) /\ ~e.isActionError

(* C11: an unexpected fault of a middleware step or of the handler      *)
(* resolves the invocation to the one INTERNAL_SERVER_ERROR Failure,    *)
(* the same for every such fault, and the fault is passed to            *)
(* console.error.                                                       *)
C11_UnexpectedFault ==
    \A call \in Calls :
        (/\ call.caught # <<>>
         /\ call.caught[1].origin \in {"middleware", "handler"}
         /\ Unexpected(call.caught[1].error)) =>
            /\ call.pc = "resolved"
            /\ call.result =
                  <<[data |-> JsNull,
                     error |-> [t |-> "object", code |-> "INTERNAL_SERVER_ERROR",
                                message |-> "An unexpected error occurred."]]>>
            /\ call.logged = <<call.caught[1].error>>

(* The handler threw new Error("boom") and the invocation resolved to    *)
(* the generic Failure.                                                  *)
C11_Witness ==
    \E call \in Calls :
        /\ call.pc = "resolved"
        /\ call.caught # <<>>
        /\ call.caught[1].origin = "handler"
        /\ call.caught[1].error = PlainError("boom")
        /\ call.result[1].error.code = "INTERNAL_SERVER_ERROR"
        /\ call.logged = <<PlainError("boom")>>

(* ------------------------------------------------------------------ *)
(* C12                                                                  *)
(* ------------------------------------------------------------------ *)
(* C12: an ActionError constructed from a string s and thrown by a step *)
(* or the handler gives the Failure with message s and no code; one     *)
(* constructed from {code, message} gives the Failure with that code    *)
(* and that message.                                                    *)
C12_DeclaredErrorVerbatim ==
    \A given \in ErrorInputs :
        \A call \in Calls :
            (/\ call.caught # <<>>
             /\ call.caught[1].origin \in {"middleware", "handler"}
             /\ call.caught[1].error = ActionError(given)) =>
                /\ call.pc = "resolved"
                /\ call.result[1].data = JsNull
                /\ call.result[1].error.message = given.message
                /\ call.result[1].error.code =
                      IF given.isString THEN Undefined ELSE given.code

(* The handler threw new ActionError("Item ID is required") and the      *)
(* Failure has that message and no code.                                 *)
C12_Witness ==
    \E call \in Calls :
        /\ call.pc = "resolved"
        /\ call.caught # <<>>
        /\ call.caught[1].origin = "handler"
        /\ call.caught[1].error = ActionError(FromString("Item ID is required"))
        /\ call.result[1].error =
              [t |-> "object", code |-> Undefined, message |-> "Item ID is required"]

(* ------------------------------------------------------------------ *)
(* C13                                                                  *)
(* ------------------------------------------------------------------ *)
(* The builders on the derivation path of builder b, from the one made  *)
(* from actionClient to b itself.                                       *)
RECURSIVE Path(_)
Path(b) == IF derived[b].from = 0 THEN <<>> ELSE Append(Path(derived[b].from), b)

(* The combined middlewares made by the use calls on the path of b. *)
StepsOnPath(b) ==
    LET uses == SelectSeq(Path(b), LAMBDA x : derived[x].op = "use")
    IN  [k \in 1..Len(uses) |-> derived[uses[k]].step]

(* The schema given by the last input call on the path of b. *)
SchemaOnPath(b) ==
    LET inputs == SelectSeq(Path(b), LAMBDA x : derived[x].op = "input")
    IN  IF inputs = <<>> THEN SchemaUndefined ELSE derived[Last(inputs)].schema

(* C13: whatever else was derived from its ancestors, a builder holds   *)
(* exactly the middleware steps and the schema attached on its own      *)
(* derivation path, and an invocation of an action built from it runs   *)
(* those steps and validates against that schema only.                  *)
C13_NoCrossContamination ==
    /\ \A b \in DOMAIN builders :
          /\ Reverse(Frames(closures, builders[b].middleware)) = StepsOnPath(b)
          /\ builders[b].schema = SchemaOnPath(b)
    /\ \A call \in Calls :
          call.pc # "idle" =>
             LET b == pipelines[call.action].this
                 steps == StepsOnPath(b)
             IN  /\ Len(call.started) <= Len(steps)
                 /\ \A k \in DOMAIN call.started : call.started[k].step = steps[k]
                 /\ call.parsed = (IF SchemaOnPath(b).defined /\ Continued(call) THEN 1 ELSE 0)
                 /\ (Continued(call) /\ SchemaOnPath(b).defined) =>
                       (call.hargs # <<>> <=> Accepts(SchemaOnPath(b), call.payload))
                 /\ call.hargs # <<>> => Len(call.started) = Len(steps)

(* Builder 2 was extended by use and by input, and an action built from  *)
(* builder 2 itself was invoked and reached its handler after one step.  *)
C13_Witness ==
    /\ Len(builders) = 4
    /\ derived[2].op = "use"
    /\ derived[3].from = 2 /\ derived[3].op = "use"
    /\ derived[4].from = 2 /\ derived[4].op = "input"
    /\ \E call \in Calls :
          /\ call.pc = "handler"
          /\ pipelines[call.action].this = 2
          /\ Len(call.started) = 1

(* ------------------------------------------------------------------ *)
(* C14                                                                  *)
(* ------------------------------------------------------------------ *)
(* C14: no step changes the schema or the middleware of an existing     *)
(* builder or what a combined middleware captured; input and use add    *)
(* one builder, distinct from every existing one, and action adds none. *)
C14_ReceiverUnchanged ==
    [][ /\ \A b \in DOMAIN builders :
              b \in DOMAIN builders' /\ builders'[b] = builders[b]
        /\ \A c \in DOMAIN closures :
              c \in DOMAIN closures' /\ closures'[c] = closures[c]
        /\ builders' # builders =>
              /\ Len(builders') = Len(builders) + 1
              /\ derived'[Len(builders')].from \in DOMAIN builders
              /\ pipelines' = pipelines
        /\ pipelines' # pipelines => builders' = builders ]_vars

(* actionClient was the receiver of input, of use and of action. *)
C14_Witness ==
    /\ \E x \in DOMAIN derived : derived[x].from = 1 /\ derived[x].op = "input"
    /\ \E y \in DOMAIN derived : derived[y].from = 1 /\ derived[y].op = "use"
    /\ \E a \in DOMAIN pipelines : pipelines[a].this = 1
    /\ builders[1] = actionClient

(* ------------------------------------------------------------------ *)
(* C20                                                                  *)
(* ------------------------------------------------------------------ *)
(* C20: a builder made by input has the middleware of its receiver and  *)
(* the given schema; one made by use has the schema of its receiver and *)
(* a combined middleware over the receiver's; so two builders with the  *)
(* same number of use calls and the same last schema on their paths     *)
(* have the same schema and chains of the same length, wherever the     *)
(* input calls were placed.                                             *)
C20_InputUseIndependent ==
    /\ \A b \in DOMAIN builders :
          derived[b].from # 0 =>
             LET d == derived[b]
                 receiver == builders[d.from]
             IN  /\ d.op = "input" =>
                       /\ builders[b].middleware = receiver.middleware
                       /\ builders[b].schema = d.schema
                 /\ d.op = "use" =>
                       /\ builders[b].schema = receiver.schema
                       /\ builders[b].middleware = d.step
                       /\ closures[d.step].oldMiddleware = receiver.middleware
    /\ \A b1, b2 \in DOMAIN builders :
          (/\ Len(StepsOnPath(b1)) = Len(StepsOnPath(b2))
           /\ SchemaOnPath(b1) = SchemaOnPath(b2)) =>
             /\ builders[b1].schema = builders[b2].schema
             /\ Len(Frames(closures, builders[b1].middleware)) =
                   Len(Frames(closures, builders[b2].middleware))

(* actionClient.use(m).input(S) and actionClient.input(S).use(m): the    *)
(* same schema and one step each.                                        *)
C20_Witness ==
    \E b1, b2 \in DOMAIN builders :
        /\ derived[b1].op = "input" /\ derived[derived[b1].from].op = "use"
        /\ derived[b2].op = "use" /\ derived[derived[b2].from].op = "input"
        /\ builders[b1].schema = createPostSchema
        /\ builders[b2].schema = createPostSchema
        /\ Len(Frames(closures, builders[b1].middleware)) = 1
        /\ Len(Frames(closures, builders[b2].middleware)) = 1

(* ------------------------------------------------------------------ *)
(* C16                                                                  *)
(* ------------------------------------------------------------------ *)
(* A value that carries the marker of a host control signal: an object  *)
(* whose digest is a string that starts with "NEXT_".                   *)
CarriesMarker(v) ==
    /\ v.t = "object"
    /\ "digest" \in DOMAIN v.f
    /\ v.f["digest"].t = "string"
    /\ StartsWith(v.f["digest"].s, NEXT_)

(* C16 as stated: an invocation in which a step or the handler raised   *)
(* the marker, or the handler returned it, re-raises and has no Result. *)
C16_RaisedOrReturned ==
    \A call \in Calls :
        (\/ (call.caught # <<>> /\ HostControlSignal(call.caught[1].error))
         \/ (call.hret # <<>> /\ CarriesMarker(call.hret[1]))) =>
            /\ call.pc = "rejected"
            /\ call.result = <<>>

(* C16 amended: an invocation re-raises and has no Result when a step   *)
(* or the handler raised the marker; a value with the marker that the   *)
(* handler returns is the data of a Success.                            *)
C16_RaisedOnly ==
    \A call \in Calls :
        /\ (call.caught # <<>> /\ HostControlSignal(call.caught[1].error)) =>
              (call.pc = "rejected" /\ call.result = <<>>)
        /\ (call.hret # <<>> /\ CarriesMarker(call.hret[1])) =>
              /\ call.pc = "resolved"
              /\ call.raised = <<>>
              /\ call.result = <<[data |-> call.hret[1], error |-> JsNull]>>
        /\ call.pc = "rejected" => call.hret = <<>>

(* The handler threw a redirect in one invocation state, and the state   *)
(* is rejected with no Result.                                           *)
C16_Witness ==
    \E call \in Calls :
        /\ call.pc = "rejected"
        /\ call.caught[1].origin = "handler"
        /\ ~call.caught[1].error.isActionError
        /\ call.result = <<>>

(* ------------------------------------------------------------------ *)
(* C18                                                                  *)
(* ------------------------------------------------------------------ *)
(* C18: the payload is validated only after every middleware step       *)
(* resolved and the handler is called only after that; a declared error *)
(* of a step is the error of the Result also when the schema rejects    *)
(* the payload, and then nothing was validated.                         *)
C18_FixedOrder ==
    \A call \in Calls :
        call.pc # "idle" =>
            /\ call.parsed > 0 => ChainSucceeded(call)
            /\ (call.caught # <<>> /\ call.caught[1].origin = "validation") =>
                  ChainSucceeded(call)
            /\ call.hargs # <<>> =>
                  /\ ChainSucceeded(call)
                  /\ BuilderOf(call).schema.defined => call.parsed = 1
            /\ (/\ call.caught # <<>>
                /\ call.caught[1].origin = "middleware"
                /\ call.caught[1].error.isActionError
                /\ ~HostControlSignal(call.caught[1].error)
                /\ BuilderOf(call).schema.defined
                /\ ~Accepts(BuilderOf(call).schema, call.payload)) =>
                  /\ call.parsed = 0
                  /\ call.result[1].error.code = call.caught[1].error.code
                  /\ call.result[1].error.message = call.caught[1].error.message

(* With the payload null, which createPostSchema rejects, the second     *)
(* step threw UNAUTHORIZED and the Result carries UNAUTHORIZED.          *)
C18_Witness ==
    \E call \in Calls :
        /\ call.pc = "resolved"
        /\ BuilderOf(call).schema = createPostSchema
        /\ call.payload = JsNull
        /\ Len(call.started) = 2
        /\ call.caught # <<>>
        /\ call.caught[1].origin = "middleware"
        /\ call.result[1].error.code = "UNAUTHORIZED"

(* ------------------------------------------------------------------ *)
(* C19                                                                  *)
(* ------------------------------------------------------------------ *)
Occurrences(log, c) == Cardinality({ k \in DOMAIN log : log[k].step = c })

(* C19: in one invocation each step is called at most once, and once    *)
(* the invocation is past the middleware chain or settled, exactly once *)
(* if all steps before it resolved; the handler is called at most once. *)
C19_NoReExecution ==
    \A call \in Calls :
        call.pc # "idle" =>
            LET chain == Chain(call)
            IN  /\ \A k \in DOMAIN chain : Occurrences(call.started, chain[k]) <= 1
                /\ \A k \in DOMAIN chain : Occurrences(call.ended, chain[k]) <= 1
                /\ Len(call.hargs) <= 1
                /\ Len(call.hret) <= 1
                /\ call.pc # "middleware" =>
                      \A k \in DOMAIN chain :
                          (\A j \in 1..(k - 1) : Occurrences(call.ended, chain[j]) = 1)
                              => Occurrences(call.started, chain[k]) = 1

(* Three stacked steps each ran once and the handler ran once. *)
C19_Witness ==
    \E call \in Calls :
        /\ call.pc = "resolved"
        /\ Len(Chain(call)) = 3
        /\ Len(call.started) = 3
        /\ Len(call.hargs) = 1
        /\ Len(call.hret) = 1

(* ------------------------------------------------------------------ *)
(* C15                                                                  *)
(* ------------------------------------------------------------------ *)
(* C15: with two invocations interleaved at their awaits, each one has  *)
(* a context built from its own steps only, passes to its handler that  *)
(* context and the input validated from its own payload, and resolves   *)
(* to the Result its own fault or its own handler's value determines.   *)
C15_Isolated ==
    \A i \in DOMAIN inv :
        LET call == inv[i]
        IN  call.pc # "idle" =>
            /\ IsMergeOf(call.ctx, call.ended, Len(call.ended))
            /\ \A k \in DOMAIN call.started :
                  /\ call.started[k].step = Chain(call)[k]
                  /\ Len(call.ended) >= k - 1
                  /\ IsMergeOf(call.started[k].ctx, call.ended, k - 1)
            /\ \A k \in DOMAIN call.ended : call.ended[k].step = Chain(call)[k]
            /\ \A h \in DOMAIN call.hargs :
                  /\ IsMergeOf(call.hargs[h].ctx, call.ended, Len(Chain(call)))
                  /\ call.hargs[h].data =
                        Validate(BuilderOf(call).schema, call.payload).validatedInput
            /\ (call.caught # <<>> /\ call.caught[1].origin = "validation") =>
                  ~Accepts(BuilderOf(call).schema, call.payload)
            /\ call.pc = "resolved" =>
                  call.result = IF call.caught # <<>>
                                THEN CatchBlock(call.caught[1].error).result
                                ELSE <<ActionSuccess(call.hret[1])>>

(* Two invocations of the same action overlap: the first waits for its  *)
(* second step with context {a: 1} while the handler of the second runs *)
(* with context {a: 2, b: 3}.                                           *)
C15_Witness ==
    /\ DOMAIN inv = {1, 2}
    /\ inv[1].action = inv[2].action
    /\ inv[1].pc = "middleware"
    /\ Len(inv[1].ended) = 1
    /\ inv[1].inflight # {}
    /\ inv[1].ctx = ("a" :> 1)
    /\ inv[2].pc = "handler"
    /\ inv[2].ctx = (("a" :> 2) @@ ("b" :> 3))
    /\ inv[1].payload # inv[2].payload

(* ------------------------------------------------------------------ *)
(* C17                                                                  *)
(* ------------------------------------------------------------------ *)
(* C17: when the action a call of execute awaited has rejected with a   *)
(* host control signal, that call of execute does not return a Result   *)
(* and calls no callback: it rejects with the signal, and the state of  *)
(* the hook is not a Failure made from it.                              *)
C17_SignalPropagates ==
    \A i \in DOMAIN inv :
        (/\ inv[i].pc = "rejected"
         /\ HostControlSignal(inv[i].raised[1])
         /\ hook.calls[i].pc # "awaiting") =>
            /\ hook.calls[i].returned = <<>>
            /\ hook.calls[i].callbacks = <<>>
            /\ hook.calls[i].thrown = inv[i].raised
            /\ ~(hook.state.isError /\ hook.state.error.code = "UNEXPECTED_ERROR")

(* ------------------------------------------------------------------ *)
(* C21                                                                  *)
(* ------------------------------------------------------------------ *)
(* The input calls on the derivation path of builder b, in order. *)
InputsOnPath(b) == SelectSeq(Path(b), LAMBDA x : derived[x].op = "input")

(* C21: when input was called more than once on the path of a builder,  *)
(* the builder holds the schema of the last call, and an invocation of  *)
(* an action built from it parses the payload once, fails validation    *)
(* exactly when that schema rejects the payload, and gives the handler  *)
(* that schema's output, whatever the earlier schemas say.              *)
C21_LastSchemaWins ==
    \A b \in DOMAIN builders :
        LET inputs == InputsOnPath(b)
            last == derived[Last(inputs)].schema
        IN  Len(inputs) >= 2 =>
               /\ builders[b].schema = last
               /\ \A call \in Calls :
                     (call.pc # "idle" /\ pipelines[call.action].this = b
                        /\ Continued(call)) =>
                         /\ call.parsed = 1
                         /\ (call.caught # <<>> /\ call.caught[1].origin = "validation")
                               <=> ~Accepts(last, call.payload)
                         /\ call.hargs # <<>> <=> Accepts(last, call.payload)
                         /\ \A h \in DOMAIN call.hargs :
                               call.hargs[h].data = safeParse(last, call.payload).data

(* input(createPostSchema).input(updateSystemSettingsSchema): the       *)
(* payload {maintenanceMode: true}, which createPostSchema rejects,     *)
(* reached the handler; or the schemas the other way round and the      *)
(* payload failed validation though the first schema accepts it.        *)
C21_Witness ==
    \E call \in Calls :
        /\ call.pc # "idle"
        /\ LET inputs == InputsOnPath(pipelines[call.action].this)
           IN  /\ Len(inputs) = 2
               /\ derived[inputs[1]].schema = createPostSchema
               /\ derived[inputs[2]].schema = updateSystemSettingsSchema
        /\ call.payload = Obj("maintenanceMode" :> Bool(TRUE))
        /\ ~Accepts(createPostSchema, call.payload)
        /\ call.hargs = <<[data |-> Obj("maintenanceMode" :> Bool(TRUE)), ctx |-> EmptyCtx]>>
        /\ call.pc = "resolved"
        /\ call.result[1].error = JsNull

(* ------------------------------------------------------------------ *)
(* C22                                                                  *)
(* ------------------------------------------------------------------ *)
(* C22: a value thrown by a step or the handler is re-raised exactly    *)
(* when it is a non-null object with a digest that is a string starting *)
(* with "NEXT_"; every other thrown value leaves the invocation         *)
(* resolved to a Failure.                                               *)
C22_Classification ==
    \A call \in Calls :
        (call.caught # <<>> /\ call.caught[1].origin \in {"middleware", "handler"}) =>
            LET e == call.caught[1].error
            IN  /\ (call.pc = "rejected" /\ call.raised = <<e>>) <=> HostControlSignal(e)
                /\ ~HostControlSignal(e) =>
                      /\ call.pc = "resolved"
                      /\ call.raised = <<>>
                      /\ Len(call.result) = 1
                      /\ IsNull(call.result[1].data)
                      /\ ~IsNull(call.result[1].error)

(* A thrown object whose digest is the string "DYNAMIC" was converted   *)
(* to a Failure.                                                        *)
C22_Witness ==
    \E call \in Calls :
        /\ call.pc = "resolved"
        /\ call.caught # <<>>
        /\ call.caught[1].error.hasDigest
        /\ call.caught[1].error.digestType = "string"
        /\ call.caught[1].error.digest = DYNAMIC
        /\ ~call.caught[1].error.isActionError
        /\ call.result[1].error.code = "INTERNAL_SERVER_ERROR"

(* ------------------------------------------------------------------ *)
(* C23                                                                  *)
(* ------------------------------------------------------------------ *)
InFlight(call) == call.pc \in {"middleware", "handler"}

(* The invocation has exactly one outcome: a Result or a re-raised value. *)
OneOutcome(call) ==
    \/ call.pc = "resolved" /\ Len(call.result) = 1 /\ call.raised = <<>>
    \/ /\ call.pc = "rejected" /\ Len(call.raised) = 1 /\ call.result = <<>>
       /\ HostControlSignal(call.raised[1])

(* C23: when steps and handlers settle, an invocation in flight leads   *)
(* to one that resolved to a Result or re-raised a host control signal; *)
(* an invocation in flight has no outcome yet, one that ended has       *)
(* exactly one, and its outcome does not change afterwards.             *)
C23_RunsToCompletion ==
    /\ \A i \in Slots : InFlight(inv[i]) ~> OneOutcome(inv[i])
    /\ [](\A i \in Slots :
            /\ InFlight(inv[i]) => (inv[i].result = <<>> /\ inv[i].raised = <<>>)
            /\ inv[i].pc \in {"resolved", "rejected"} => OneOutcome(inv[i]))
    /\ [][\A i \in Slots :
            (inv[i].pc \in {"resolved", "rejected"} /\ inv'[i] # inv[i])
                => (inv'[i].pc = "middleware" /\ inv'[i].started = <<>>)]_vars

(* An invocation with two steps ended by re-raising a redirect its      *)
(* handler threw.                                                       *)
C23_Witness ==
    \E call \in Calls :
        /\ call.pc = "rejected"
        /\ Len(call.ended) = 2
        /\ call.hargs # <<>>
        /\ call.raised = <<WithDigest(PlainError("NEXT_REDIRECT"), NEXT_REDIRECT)>>
        /\ OneOutcome(call)

(* ------------------------------------------------------------------ *)
(* C24                                                                  *)
(* ------------------------------------------------------------------ *)
(* C24: a call of execute calls nothing while it awaits the action; once *)
(* it has returned it has called setState with the final state, then    *)
(* the hook's and the call's onError if the error of its result is not  *)
(* null and otherwise the hook's and the call's onSuccess, then the     *)
(* hook's and the call's onSettled, each with that final state.         *)
C24_CallbackOrder ==
    \A i \in DOMAIN hook.calls :
        LET call == hook.calls[i]
            log == call.callbacks
        IN  /\ call.pc = "awaiting" => log = <<>>
            /\ call.pc = "returned" =>
                  LET result == call.returned[1]
                      family == IF IsNull(result.error) THEN "onSuccess" ELSE "onError"
                  IN  /\ inv[i].pc = "resolved" => result = inv[i].result[1]
                      /\ Len(log) = 5
                      /\ [k \in 1..5 |-> <<log[k].level, log[k].callback>>] =
                            << <<"hook", "setState">>,
                               <<"options", family>>, <<"execOptions", family>>,
                               <<"options", "onSettled">>, <<"execOptions", "onSettled">> >>
                      /\ \A k \in 1..5 : log[k].state = log[1].state
                      /\ log[1].state.isLoading = FALSE
                      /\ log[1].state.isError = ~IsNull(result.error)
                      /\ log[1].state.error = result.error

(* One call of execute returned a Failure and called onError, the other  *)
(* returned a Success and called onSuccess.                              *)
C24_Witness ==
    /\ DOMAIN hook.calls = {1, 2}
    /\ hook.calls[1].pc = "returned"
    /\ hook.calls[1].returned[1].error.t = "object"
    /\ hook.calls[1].returned[1].error.code = "UNAUTHORIZED"
    /\ hook.calls[1].callbacks[2].callback = "onError"
    /\ hook.calls[2].pc = "returned"
    /\ IsNull(hook.calls[2].returned[1].error)
    /\ hook.calls[2].callbacks[3].callback = "onSuccess"

(* ------------------------------------------------------------------ *)
(* C25                                                                  *)
(* ------------------------------------------------------------------ *)
(* The call of execute in slot i returns in this step. *)
Returning(i) == hook.calls[i].pc = "awaiting" /\ hook'.calls[i].pc = "returned"

(* C25: in every state of the hook isError is true exactly when error   *)
(* is not null; the state a call of execute leaves when it returns a    *)
(* Failure has that error and data null, or the initial value if the    *)
(* call had reset: true, whatever data the state had before; the state  *)
(* it leaves when it returns a Success has the data of the result and   *)
(* error null.                                                          *)
C25_StateShape ==
    /\ [](hook.state.isError <=> ~IsNull(hook.state.error))
    /\ [][\A i \in DOMAIN hook.calls :
            Returning(i) =>
               LET result == hook'.calls[i].returned[1]
               IN  IF IsNull(result.error)
                   THEN /\ hook'.state.data = result.data
                        /\ IsNull(hook'.state.error)
                        /\ ~hook'.state.isError
                   ELSE /\ hook'.state.error = result.error
                        /\ hook'.state.isError
                        /\ hook'.state.data =
                              (IF ~hook.calls[i].execOptions.reset THEN JsNull
                               ELSE IF hook.initial = JsUndefined THEN JsNull
                               ELSE hook.initial)]_vars

(* The first call of execute returned a Success with data, then the     *)
(* second returned a Failure, and the state has the error and no data.  *)
C25_Witness ==
    /\ DOMAIN hook.calls = {1, 2}
    /\ hook.calls[1].pc = "returned"
    /\ IsNull(hook.calls[1].returned[1].error)
    /\ hook.calls[1].returned[1].data = Obj("maintenanceMode" :> Bool(TRUE))
    /\ hook.calls[2].pc = "returned"
    /\ ~IsNull(hook.calls[2].returned[1].error)
    /\ ~hook.calls[2].execOptions.reset
    /\ hook.state.isError
    /\ hook.state.error = hook.calls[2].returned[1].error
    /\ IsNull(hook.state.data)

(* ------------------------------------------------------------------ *)
(* C26                                                                  *)
(* ------------------------------------------------------------------ *)
(* C26: when reset() is never called, isLoading is true exactly in the  *)
(* states in which some call of execute has started and not completed.  *)
C26_LoadingWhileInFlight ==
    hook.state.isLoading <=> (\E i \in DOMAIN hook.calls : hook.calls[i].pc = "awaiting")

=============================================================================
